---- MODULE Spec2Model ----
(***************************************************************************)
(* Model of src/lib/twitch.ts: the TwitchController of the overlays        *)
(* server.  Three independent parts of the controller are modelled:        *)
(*   - setupEventSub, the reconciliation of the remote EventSub            *)
(*     subscriptions with the fixed list eventTypes  (SpecEventSub);       *)
(*   - handleEvent / redeem, the dispatch of a webhook event to the        *)
(*     reward actions and the OBS scene switch         (SpecRedeem);       *)
(*   - setupChatBot and its onMessage handler          (SpecChat).         *)
(* Each await of the source is a suspension point: the code up to the next *)
(* await is one action, the resumption of the await is the next one.       *)
(* The remote services (Twitch, OBS, Snap, giveaways, open) are the        *)
(* environment: every call returns with one of the outcomes it can have.   *)
(***************************************************************************)
EXTENDS Integers, Sequences, FiniteSets, TLC

VARIABLES
    registry,       \* Twitch side: the sequence of subscriptions that exist
    nextId,         \* Twitch side: the id given to the next created subscription
    run,            \* number of the current process start
    faults,         \* failing call outcomes so far
    pc,             \* position of setupEventSub
    subscriptions,  \* const subscriptions = await listSubscriptions(...)
    idx,            \* position of the for-of loop in eventTypes
    existing,       \* index in subscriptions of `existing`, 0 when undefined
    calls,          \* the registry calls issued by this run, in order
    rpc,            \* position of handleEvent / redeem
    event,          \* the event being handled
    delivered,      \* number of events handed to handleEvent
    effects,        \* collaborator calls and handler steps, in order
    history,        \* the events handed to handleEvent, in order
    cpc,            \* position of setupChatBot
    connected,      \* the chat client is connected
    chatFaults,     \* failing chat-side outcomes so far
    chat,           \* what the onMessage handler did, in order
    chatCalls       \* the calls setupChatBot made, in order

esVars == <<registry, nextId, run, faults, pc, subscriptions, idx, existing, calls>>
rdVars == <<rpc, event, delivered, effects, history>>
chVars == <<cpc, connected, chatFaults, chat, chatCalls>>
vars == <<registry, nextId, run, faults, pc, subscriptions, idx, existing, calls,
          rpc, event, delivered, effects, history,
          cpc, connected, chatFaults, chat, chatCalls>>

----------------------------------------------------------------------------
(* Bounds of the model *)

MaxSubs == 2        \* subscriptions in the registry at the first start
MaxRuns == 2        \* process starts
MaxFaults == 1      \* failing registry/token calls over all runs
MaxEvents == 2      \* webhook events handed to handleEvent
MaxMsgs == 2        \* chat messages received
MaxChatFaults == 1  \* failing chat-side calls

----------------------------------------------------------------------------
(* Environment of setupEventSub *)

userId == "X"

defaultCondition == [broadcaster_user_id |-> userId]

raidCondition == [to_broadcaster_user_id |-> userId]

\* const eventTypes: [TwitchEventType, object?][]
eventTypes ==
    << <<"channel.follow">>,
       <<"channel.subscribe">>,
       <<"channel.channel_points_custom_reward_redemption.add">>,
       <<"channel.update">>,
       <<"channel.cheer">>,
       <<"channel.subscription.gift">>,
       <<"channel.raid", raidCondition>> >>

\* TwitchEventSubscription.status
Statuses ==
    {"enabled", "webhook_callback_verification_pending",
     "webhook_callback_verification_failed", "notification_failures_exceeded",
     "authorization_revoked", "user_removed"}

\* what the subscriptions of the registry at the first start are drawn from:
\* two desired types and one type outside eventTypes, the two healthy statuses
\* and an unhealthy one, and the condition TwitchEventSubscription declares,
\* { broadcaster_user_id }, which is not the one desired for channel.raid
InitTypes == {"channel.follow", "channel.raid", "channel.hype_train.begin"}

InitStatuses == {"enabled", "webhook_callback_verification_pending", "authorization_revoked"}

InitConditions == {defaultCondition}

\* the statuses setupEventSub leaves alone
HealthyStatuses == {"enabled", "webhook_callback_verification_pending"}


----------------------------------------------------------------------------
(* Helpers of setupEventSub *)

\* existing.status === "enabled" || existing.status === "webhook_callback_verification_pending"
IsHealthyEnabledOnly(status) == status = "enabled"

IsHealthy(status) ==
    status = "enabled" \/ status = "webhook_callback_verification_pending"

\* subscriptions.find((sub) => sub.type === eventType): index of the first match, 0 if none
FindLast(subs, eventType) ==
    IF \E k \in 1..Len(subs) : subs[k].type = eventType
    THEN CHOOSE k \in 1..Len(subs) :
            /\ subs[k].type = eventType
            /\ \A j \in (k+1)..Len(subs) : subs[j].type # eventType
    ELSE 0

FindAnyType(subs, eventType) == IF Len(subs) > 0 THEN 1 ELSE 0

Find(subs, eventType) ==
    IF \E k \in 1..Len(subs) : subs[k].type = eventType
    THEN CHOOSE k \in 1..Len(subs) :
            /\ subs[k].type = eventType
            /\ \A j \in 1..(k-1) : subs[j].type # eventType
    ELSE 0

\* condition: condition ?? { broadcaster_user_id: this.userId }
ResolveConditionDefaultOnly(entry) == defaultCondition

ResolveCondition(entry) ==
    IF Len(entry) >= 2 THEN entry[2] ELSE defaultCondition

TypeOf(entry) == entry[1]

\* the record of a call in `calls`; result is "pending" while the call is in flight
Call(op, type, id, condition) ==
    [op |-> op, type |-> type, id |-> id, condition |-> condition, result |-> "pending"]

Returned(cs, result) == [cs EXCEPT ![Len(cs)].result = result]

RemoveId(reg, id) == SelectSeq(reg, LAMBDA s : s.id # id)

\* createSubscription({ type: eventType, condition: condition ?? ... })
CreateCallFirstType(entry) ==
    Call("create", TypeOf(eventTypes[1]), 0, ResolveCondition(entry))

CreateCall(entry) == Call("create", TypeOf(entry), 0, ResolveCondition(entry))

----------------------------------------------------------------------------
(* The registry at the first start *)

\* at the first start no two healthy subscriptions share type and condition
InitRegistries ==
    {r \in UNION {[1..n -> [type : InitTypes, status : InitStatuses,
                            condition : InitConditions]] : n \in 0..MaxSubs} :
        \A j, k \in 1..Len(r) :
            (j # k /\ r[j].status \in HealthyStatuses /\ r[k].status \in HealthyStatuses
                   /\ r[j].type = r[k].type) => r[j].condition # r[k].condition}

WithIds(s) == [k \in 1..Len(s) |-> [id |-> k, type |-> s[k].type,
                                    status |-> s[k].status, condition |-> s[k].condition]]

----------------------------------------------------------------------------
(* setupEventSub *)

\* constructor: this.setupEventSub(); the function runs to `await this.getToken()`
SetupEventSub ==
    /\ pc = "start"
    /\ pc' = "getToken"
    /\ calls' = Append(calls, Call("getToken", "", 0, defaultCondition))
    /\ UNCHANGED <<registry, nextId, run, faults, subscriptions, idx, existing>>
    /\ UNCHANGED rdVars /\ UNCHANGED chVars

\* getToken resolves (a non-2xx answer gives an undefined token, no throw) and
\* listSubscriptions is called; or its fetch rejects and setupEventSub rejects
GetTokenReturn ==
    /\ pc = "getToken"
    /\ \/ /\ pc' = "listSubscriptions"
          /\ calls' = Append(Returned(calls, "ok"), Call("list", "", 0, defaultCondition))
          /\ UNCHANGED faults
       \/ /\ faults < MaxFaults
          /\ faults' = faults + 1
          /\ pc' = "failed"
          /\ calls' = Returned(calls, "threw")
    /\ UNCHANGED <<registry, nextId, run, subscriptions, idx, existing>>
    /\ UNCHANGED rdVars /\ UNCHANGED chVars

\* listSubscriptions resolves with data; or its fetch rejects, or the answer
\* carries no data and subscriptions.find throws: setupEventSub rejects
ListSubscriptionsReturn ==
    /\ pc = "listSubscriptions"
    /\ \/ /\ pc' = "loop"
          /\ subscriptions' = registry
          /\ idx' = 1
          /\ calls' = Returned(calls, "ok")
          /\ UNCHANGED faults
       \/ /\ faults < MaxFaults
          /\ faults' = faults + 1
          /\ pc' = "failed"
          /\ calls' = Returned(calls, "threw")
          /\ UNCHANGED <<subscriptions, idx>>
    /\ UNCHANGED <<registry, nextId, run, existing>>
    /\ UNCHANGED rdVars /\ UNCHANGED chVars

\* one turn of the for-of loop up to its first await: find, the healthy test
\* (continue), then the delete call when existing, else the create call
ExamineNoContinue ==
    /\ pc = "loop"
    /\ idx <= Len(eventTypes)
    /\ LET e == Find(subscriptions, TypeOf(eventTypes[idx])) IN
        /\ existing' = e
        /\ IF e # 0
           THEN /\ pc' = "deleteSubscription"
                /\ calls' = Append(calls, Call("delete", subscriptions[e].type,
                                               subscriptions[e].id, subscriptions[e].condition))
                /\ UNCHANGED idx
           ELSE /\ pc' = "createSubscription"
                /\ calls' = Append(calls, CreateCall(eventTypes[idx]))
                /\ UNCHANGED idx
    /\ UNCHANGED <<registry, nextId, run, faults, subscriptions>>
    /\ UNCHANGED rdVars /\ UNCHANGED chVars

ExamineNoAwait ==
    /\ pc = "loop"
    /\ idx <= Len(eventTypes)
    /\ LET e == Find(subscriptions, TypeOf(eventTypes[idx])) IN
        /\ existing' = e
        /\ IF e # 0 /\ IsHealthy(subscriptions[e].status)
           THEN /\ idx' = idx + 1
                /\ UNCHANGED <<pc, calls>>
           ELSE IF e # 0
           THEN /\ pc' = "createSubscription"
                /\ calls' = calls \o
                      << Call("delete", subscriptions[e].type,
                              subscriptions[e].id, subscriptions[e].condition),
                         CreateCall(eventTypes[idx]) >>
                /\ UNCHANGED idx
           ELSE /\ pc' = "createSubscription"
                /\ calls' = Append(calls, CreateCall(eventTypes[idx]))
                /\ UNCHANGED idx
    /\ UNCHANGED <<registry, nextId, run, faults, subscriptions>>
    /\ UNCHANGED rdVars /\ UNCHANGED chVars

Examine ==
    /\ pc = "loop"
    /\ idx <= Len(eventTypes)
    /\ LET e == Find(subscriptions, TypeOf(eventTypes[idx])) IN
        /\ existing' = e
        /\ IF e # 0 /\ IsHealthy(subscriptions[e].status)
           THEN /\ idx' = idx + 1
                /\ UNCHANGED <<pc, calls>>
           ELSE IF e # 0
           THEN /\ pc' = "deleteSubscription"
                /\ calls' = Append(calls, Call("delete", subscriptions[e].type,
                                               subscriptions[e].id, subscriptions[e].condition))
                /\ UNCHANGED idx
           ELSE /\ pc' = "createSubscription"
                /\ calls' = Append(calls, CreateCall(eventTypes[idx]))
                /\ UNCHANGED idx
    /\ UNCHANGED <<registry, nextId, run, faults, subscriptions>>
    /\ UNCHANGED rdVars /\ UNCHANGED chVars

\* the loop is over: setupEventSub resolves
LoopEnd ==
    /\ pc = "loop"
    /\ idx > Len(eventTypes)
    /\ pc' = "done"
    /\ UNCHANGED <<registry, nextId, run, faults, subscriptions, idx, existing, calls>>
    /\ UNCHANGED rdVars /\ UNCHANGED chVars

\* await deleteSubscription(...) resumes: the subscription is gone (2xx), or it
\* is still there (non-2xx, the response is returned all the same), and the
\* create call is issued; or the fetch rejects, which nothing catches
DeleteSubscriptionReturn ==
    /\ pc = "deleteSubscription"
    /\ \/ /\ registry' = RemoveId(registry, subscriptions[existing].id)
          /\ pc' = "createSubscription"
          /\ calls' = Append(Returned(calls, "ok"), CreateCall(eventTypes[idx]))
          /\ UNCHANGED faults
       \/ /\ faults < MaxFaults
          /\ faults' = faults + 1
          /\ pc' = "createSubscription"
          /\ calls' = Append(Returned(calls, "error"), CreateCall(eventTypes[idx]))
          /\ UNCHANGED registry
       \/ /\ faults < MaxFaults
          /\ faults' = faults + 1
          /\ pc' = "failed"
          /\ calls' = Returned(calls, "threw")
          /\ UNCHANGED registry
    /\ UNCHANGED <<nextId, run, subscriptions, idx, existing>>
    /\ UNCHANGED rdVars /\ UNCHANGED chVars

\* await createSubscription(...) resumes: the subscription exists, pending its
\* callback verification; or the call failed (non-2xx, or a rejection that
\* createSubscription catches and logs).  The loop goes on either way.
CreateSubscriptionReturn ==
    /\ pc = "createSubscription"
    /\ \/ /\ registry' = Append(registry,
                [id |-> nextId, type |-> calls[Len(calls)].type,
                 status |-> "webhook_callback_verification_pending",
                 condition |-> calls[Len(calls)].condition])
          /\ nextId' = nextId + 1
          /\ calls' = Returned(calls, "ok")
          /\ UNCHANGED faults
       \/ /\ faults < MaxFaults
          /\ faults' = faults + 1
          /\ calls' = Returned(calls, "error")
          /\ UNCHANGED <<registry, nextId>>
    /\ pc' = "loop"
    /\ idx' = idx + 1
    /\ UNCHANGED <<run, subscriptions, existing>>
    /\ UNCHANGED rdVars /\ UNCHANGED chVars

\* the process is started again: a new TwitchController, a new setupEventSub
Restart ==
    /\ pc \in {"done", "failed"}
    /\ run < MaxRuns
    /\ run' = run + 1
    /\ pc' = "start"
    /\ subscriptions' = <<>>
    /\ idx' = 0
    /\ existing' = 0
    /\ calls' = <<>>
    /\ UNCHANGED <<registry, nextId, faults>>
    /\ UNCHANGED rdVars /\ UNCHANGED chVars

----------------------------------------------------------------------------
(* Rewards: ./rewards is not part of the sources at hand; the table and      *)
(* getReward follow the data model of the specification: a Reward has an id, *)
(* a type, an optional scene and the optional field of its type.             *)

redemptionAdd == "channel.channel_points_custom_reward_redemption.add"

Rewards ==
    [shellScene    |-> [type |-> "shell", script |-> "party.sh", scene |-> "cam"],
     shellPlain    |-> [type |-> "shell", script |-> "party.sh"],
     shellNoScript |-> [type |-> "shell", scene |-> "desk"],
     snapScene     |-> [type |-> "snap-filter", key |-> "dog", scene |-> "cam"],
     snapPlain     |-> [type |-> "snap-filter", key |-> "dog"],
     snapNoKey     |-> [type |-> "snap-filter", scene |-> "desk"],
     entryScene    |-> [type |-> "giveaway-entry", scene |-> "cam"],
     entryPlain    |-> [type |-> "giveaway-entry"]]

undefinedReward == [x \in {} |-> x]

\* getReward(id): the Reward with that id, undefined when there is none
getReward(id) == IF id \in DOMAIN Rewards THEN Rewards[id] ELSE undefinedReward

\* the events handed to handleEvent: redemptions of every reward id and of an
\* unknown one by two users, and events of two other types
UserNames == {"alice", "bob"}

Events ==
    [type : {redemptionAdd}, reward_id : DOMAIN Rewards \cup {"unknown"}, user_name : UserNames]
    \cup [type : {"channel.follow", "channel.raid"}, reward_id : {"shellScene"},
          user_name : {"alice"}]

----------------------------------------------------------------------------
(* Helpers of handleEvent / redeem *)

\* switch (event.subscription.type): the one case that calls redeem; no
\* record of earlier events is consulted
DispatchesToRedeemAlways(e) == TRUE

DispatchesToRedeemOnce(e) ==
    e.type = redemptionAdd /\ \A k \in 1..Len(history) : history[k] # e

DispatchesToRedeem(e) == e.type = redemptionAdd

\* reward?.type
RewardTypeAlwaysShell(reward) == "shell"

RewardType(reward) == IF "type" \in DOMAIN reward THEN reward.type ELSE "undefined"

\* a field that is present and truthy: `if (!script) return`, `if (!key) return`
TruthyAlways(reward, field) == TRUE

Truthy(reward, field) == field \in DOMAIN reward /\ reward[field] # ""

FieldOf(reward, field) == IF field \in DOMAIN reward THEN reward[field] ELSE "undefined"

\* if (reward?.scene)
SceneDeclaredAlways(reward) == TRUE

SceneDeclared(reward) == Truthy(reward, "scene")

\* an entry of `effects`: the n-th delivery invoked op with arg
Effect(n, op, arg, result) == [n |-> n, op |-> op, arg |-> arg, result |-> result]

\* the pending entry of op gets its result
Settle(effs, op, result) ==
    [k \in 1..Len(effs) |->
        IF effs[k].op = op /\ effs[k].result = "pending"
        THEN [effs[k] EXCEPT !.result = result] ELSE effs[k]]

\* after the switch statement of redeem: the scene switch, when declared
SceneStepPc(reward) == IF SceneDeclared(reward) THEN "switchScene" ELSE "done"

SceneStepEffects(effs, n, reward) ==
    IF SceneDeclared(reward)
    THEN Append(effs, Effect(n, "switchScene", FieldOf(reward, "scene"), "pending"))
    ELSE effs

----------------------------------------------------------------------------
(* handleEvent / redeem *)

\* handleEvent(event) runs up to its first await.  An event of another type
\* is done at once.  A redemption looks up its reward and enters the action of
\* its type, which calls its collaborator unless its field is missing; with no
\* reward, or a reward of no known type, redeem goes on to the scene switch.
HandleEvent ==
    /\ rpc \in {"idle", "done", "failed"}
    /\ delivered < MaxEvents
    /\ \E e \in Events :
        LET n == delivered + 1
            reward == getReward(e.reward_id)
        IN
        /\ event' = e
        /\ delivered' = n
        /\ history' = Append(history, e)
        /\ IF ~DispatchesToRedeem(e)
           THEN /\ rpc' = "done"
                /\ UNCHANGED effects
           ELSE IF RewardType(reward) = "shell"
           THEN IF Truthy(reward, "script")
                THEN /\ rpc' = "open"
                     /\ effects' = effects \o
                            << Effect(n, "redeemShell", "", "pending"),
                               Effect(n, "open", FieldOf(reward, "script"), "pending") >>
                ELSE /\ rpc' = "afterAction"
                     /\ effects' = Append(effects, Effect(n, "redeemShell", "", "ok"))
           ELSE IF RewardType(reward) = "snap-filter"
           THEN IF Truthy(reward, "key")
                THEN /\ rpc' = "toggleSnapFilter"
                     /\ effects' = effects \o
                            << Effect(n, "redeemSnapFilter", "", "pending"),
                               Effect(n, "toggleSnapFilter", FieldOf(reward, "key"), "pending") >>
                ELSE /\ rpc' = "afterAction"
                     /\ effects' = Append(effects, Effect(n, "redeemSnapFilter", "", "ok"))
           ELSE IF RewardType(reward) = "giveaway-entry"
           THEN \* this.giveaways.handleNewEntry(userName) is called and not awaited:
                \* it returns, or it returns a promise that rejects unobserved,
                \* or it throws and redeemGiveawayEntry rejects
                \/ /\ rpc' = "afterAction"
                   /\ \E r \in {"ok", "rejected"} :
                        effects' = effects \o
                            << Effect(n, "redeemGiveawayEntry", "", "ok"),
                               Effect(n, "handleNewEntry", e.user_name, r) >>
                \/ /\ rpc' = "failed"
                   /\ effects' = effects \o
                            << Effect(n, "redeemGiveawayEntry", "", "threw"),
                               Effect(n, "handleNewEntry", e.user_name, "threw") >>
           ELSE /\ rpc' = SceneStepPc(reward)
                /\ effects' = SceneStepEffects(effects, n, reward)
    /\ UNCHANGED esVars /\ UNCHANGED chVars

\* await open(script, { background: true }) resumes in redeemShell; a
\* rejection is caught and logged there
OpenReturn ==
    /\ rpc = "open"
    /\ \E r \in {"ok", "threw"} :
          effects' = Settle(Settle(effects, "open", r), "redeemShell", "ok")
    /\ rpc' = "afterAction"
    /\ UNCHANGED <<event, delivered, history>>
    /\ UNCHANGED esVars /\ UNCHANGED chVars

\* await this.snap.toggleSnapFilter(key) resumes in redeemSnapFilter; a
\* rejection is caught and logged there
ToggleSnapFilterReturn ==
    /\ rpc = "toggleSnapFilter"
    /\ \E r \in {"ok", "threw"} :
          effects' = Settle(Settle(effects, "toggleSnapFilter", r), "redeemSnapFilter", "ok")
    /\ rpc' = "afterAction"
    /\ UNCHANGED <<event, delivered, history>>
    /\ UNCHANGED esVars /\ UNCHANGED chVars

\* the await of the action resumes in redeem: the scene switch, when declared
RedeemResume ==
    /\ rpc = "afterAction"
    /\ rpc' = SceneStepPc(getReward(event.reward_id))
    /\ effects' = SceneStepEffects(effects, delivered, getReward(event.reward_id))
    /\ UNCHANGED <<event, delivered, history>>
    /\ UNCHANGED esVars /\ UNCHANGED chVars

\* await this.server.obs.switchScene(reward.scene) resumes; a rejection is
\* not caught: redeem and handleEvent reject
SwitchSceneReturn ==
    /\ rpc = "switchScene"
    /\ \/ /\ effects' = Settle(effects, "switchScene", "ok")
          /\ rpc' = "done"
       \/ /\ effects' = Settle(effects, "switchScene", "threw")
          /\ rpc' = "failed"
    /\ UNCHANGED <<event, delivered, history>>
    /\ UNCHANGED esVars /\ UNCHANGED chVars

----------------------------------------------------------------------------
(* Chat: messages are sequences of characters *)

username == "owner"

ChatUsers == {"owner", "viewer", "Owner"}

winnerToken == <<"!", "w", "i", "n", "n", "e", "r">>

ChatMessages ==
    { winnerToken,
      winnerToken \o <<" ", "n", "o", "w">>,
      <<"!", "w", "i", "n">>,
      <<" ">> \o winnerToken,
      <<"w", "i", "n", "n", "e", "r">>,
      <<"!", "W", "i", "n", "n", "e", "r">>,
      <<"h", "i">>,
      <<>> }

\* message.startsWith(prefix)
startsWith(message, prefix) ==
    /\ Len(message) >= Len(prefix)
    /\ SubSeq(message, 1, Len(prefix)) = prefix

\* message.startsWith("!winner") && user === this.username
IsWinnerCommandAnyUser(message, user) == startsWith(message, winnerToken)

IsWinnerCommand(message, user) ==
    startsWith(message, winnerToken) /\ user = username

----------------------------------------------------------------------------
(* setupChatBot *)

\* constructor: this.setupChatBot(); the function runs to `await getAuthProvider()`
SetupChatBot ==
    /\ cpc = "idle"
    /\ cpc' = "getAuthProvider"
    /\ chatCalls' = Append(chatCalls, [op |-> "getAuthProvider", result |-> "pending"])
    /\ UNCHANGED <<connected, chatFaults, chat>>
    /\ UNCHANGED esVars /\ UNCHANGED rdVars

\* getAuthProvider resolves, the ChatClient is built and connect() is called;
\* or reading or parsing tokens.json fails and setupChatBot rejects
GetAuthProviderReturn ==
    /\ cpc = "getAuthProvider"
    /\ \/ /\ cpc' = "connect"
          /\ chatCalls' = Append(Returned(chatCalls, "ok"),
                                 [op |-> "connect", result |-> "pending"])
          /\ UNCHANGED chatFaults
       \/ /\ chatFaults < MaxChatFaults
          /\ chatFaults' = chatFaults + 1
          /\ cpc' = "failed"
          /\ chatCalls' = Returned(chatCalls, "threw")
    /\ UNCHANGED <<connected, chat>>
    /\ UNCHANGED esVars /\ UNCHANGED rdVars

\* await this.chatClient.connect() resumes; a rejection is caught and logged;
\* then the onMessage handler is registered
ConnectReturnUncaught ==
    /\ cpc = "connect"
    /\ \/ /\ connected' = TRUE
          /\ cpc' = "registered"
          /\ chatCalls' = Append(Returned(chatCalls, "ok"),
                                 [op |-> "onMessage", result |-> "ok"])
          /\ UNCHANGED chatFaults
       \/ /\ chatFaults < MaxChatFaults
          /\ chatFaults' = chatFaults + 1
          /\ connected' = FALSE
          /\ cpc' = "failed"
          /\ chatCalls' = Returned(chatCalls, "threw")
    /\ UNCHANGED chat
    /\ UNCHANGED esVars /\ UNCHANGED rdVars

ConnectReturn ==
    /\ cpc = "connect"
    /\ \/ /\ connected' = TRUE
          /\ chatCalls' = Append(Returned(chatCalls, "ok"),
                                 [op |-> "onMessage", result |-> "ok"])
          /\ UNCHANGED chatFaults
       \/ /\ chatFaults < MaxChatFaults
          /\ chatFaults' = chatFaults + 1
          /\ connected' = FALSE
          /\ chatCalls' = Append(Returned(chatCalls, "threw"),
                                 [op |-> "onMessage", result |-> "ok"])
    /\ cpc' = "registered"
    /\ UNCHANGED chat
    /\ UNCHANGED esVars /\ UNCHANGED rdVars

\* the onMessage handler, which has no await: the winner command calls
\* selectWinner, then the chat event is emitted; when selectWinner throws the
\* handler rejects before the emit
OnMessage ==
    /\ cpc = "registered"
    /\ connected
    /\ Len(chat) < MaxMsgs
    /\ \E user \in ChatUsers, message \in ChatMessages :
        IF IsWinnerCommand(message, user)
        THEN \/ /\ chat' = Append(chat, [user |-> user, message |-> message,
                                         steps |-> <<"selectWinner", "emit">>])
                /\ UNCHANGED chatFaults
             \/ /\ chatFaults < MaxChatFaults
                /\ chatFaults' = chatFaults + 1
                /\ chat' = Append(chat, [user |-> user, message |-> message,
                                         steps |-> <<"selectWinner">>])
        ELSE /\ chat' = Append(chat, [user |-> user, message |-> message,
                                      steps |-> <<"emit">>])
             /\ UNCHANGED chatFaults
    /\ UNCHANGED <<cpc, connected, chatCalls>>
    /\ UNCHANGED esVars /\ UNCHANGED rdVars

----------------------------------------------------------------------------
(* Specifications *)

InitEventSubIdle ==
    /\ registry = <<>>
    /\ nextId = 1
    /\ run = 1
    /\ faults = 0
    /\ pc = "start"
    /\ subscriptions = <<>>
    /\ idx = 0
    /\ existing = 0
    /\ calls = <<>>

InitRedeemIdle ==
    /\ rpc = "idle"
    /\ event = [type |-> "", reward_id |-> "", user_name |-> ""]
    /\ delivered = 0
    /\ effects = <<>>
    /\ history = <<>>

InitChatIdle ==
    /\ cpc = "idle"
    /\ connected = FALSE
    /\ chatFaults = 0
    /\ chat = <<>>
    /\ chatCalls = <<>>

InitEventSub ==
    /\ \E r \in InitRegistries :
          /\ registry = WithIds(r)
          /\ nextId = Len(r) + 1
    /\ run = 1
    /\ faults = 0
    /\ pc = "start"
    /\ subscriptions = <<>>
    /\ idx = 0
    /\ existing = 0
    /\ calls = <<>>
    /\ InitRedeemIdle
    /\ InitChatIdle

NextEventSub ==
    \/ SetupEventSub
    \/ GetTokenReturn
    \/ ListSubscriptionsReturn
    \/ Examine
    \/ LoopEnd
    \/ DeleteSubscriptionReturn
    \/ CreateSubscriptionReturn
    \/ Restart

SpecEventSub == InitEventSub /\ [][NextEventSub]_vars

InitRedeem == InitEventSubIdle /\ InitRedeemIdle /\ InitChatIdle

NextRedeem ==
    \/ HandleEvent
    \/ OpenReturn
    \/ ToggleSnapFilterReturn
    \/ RedeemResume
    \/ SwitchSceneReturn

SpecRedeem == InitRedeem /\ [][NextRedeem]_vars

InitChat == InitEventSubIdle /\ InitRedeemIdle /\ InitChatIdle

NextChat ==
    \/ SetupChatBot
    \/ GetAuthProviderReturn
    \/ ConnectReturn
    \/ OnMessage

SpecChat == InitChat /\ [][NextChat]_vars

----------------------------------------------------------------------------
(* Vocabulary of the properties of setupEventSub *)

DesiredTypes == {eventTypes[i][1] : i \in 1..Len(eventTypes)}

Terminated == pc \in {"done", "failed"}

\* the list call of this run has returned its data
Listed == \E k \in 1..Len(calls) : calls[k].op = "list" /\ calls[k].result = "ok"

OfType(seq, T) == {k \in 1..Len(seq) : seq[k].type = T}

HealthyOfType(seq, T) == {k \in OfType(seq, T) : seq[k].status \in HealthyStatuses}

FirstOfType(seq, T) ==
    IF OfType(seq, T) = {} THEN 0
    ELSE CHOOSE k \in OfType(seq, T) : \A j \in OfType(seq, T) : k <= j

FirstIsHealthy(seq, T) ==
    FirstOfType(seq, T) # 0 /\ seq[FirstOfType(seq, T)].status \in HealthyStatuses

FirstIsUnhealthy(seq, T) ==
    FirstOfType(seq, T) # 0 /\ seq[FirstOfType(seq, T)].status \notin HealthyStatuses

CallsOf(op, T) == {k \in 1..Len(calls) : calls[k].op = op /\ calls[k].type = T}

RegistryCalls == {k \in 1..Len(calls) : calls[k].op \in {"delete", "create"}}

----------------------------------------------------------------------------
(* C1 *)

\* C1 as stated: once setupEventSub has completed, the registry holds exactly
\* one healthy subscription of every desired type, whatever the registry held
\* and whatever the create and delete calls did.
C1_ExactlyOneHealthyAlways ==
    pc = "done" =>
        \A T \in DesiredTypes : Cardinality(HealthyOfType(registry, T)) = 1

\* C1 (amended): for a desired type T of which the listing held at most one
\* subscription, once setupEventSub has ended the registry holds at most one
\* healthy subscription of type T, and exactly one when the listed one was
\* healthy or the run's create call for T succeeded.
C1_ExactlyOneHealthy ==
    (Terminated /\ Listed) =>
        \A T \in DesiredTypes :
            Cardinality(OfType(subscriptions, T)) <= 1 =>
                /\ Cardinality(HealthyOfType(registry, T)) <= 1
                /\ (\/ FirstIsHealthy(subscriptions, T)
                    \/ \E k \in CallsOf("create", T) : calls[k].result = "ok")
                      => Cardinality(HealthyOfType(registry, T)) = 1

\* a run that replaced an unhealthy subscription and left one healthy
\* subscription of every desired type
C1_Witness ==
    /\ pc = "done"
    /\ \E k \in 1..Len(calls) : calls[k].op = "delete" /\ calls[k].result = "ok"
    /\ \A T \in DesiredTypes :
          /\ Cardinality(OfType(subscriptions, T)) <= 1
          /\ Cardinality(HealthyOfType(registry, T)) = 1

----------------------------------------------------------------------------
(* C2 *)

\* C2 as stated: after setupEventSub has completed the registry never holds
\* two healthy subscriptions with the same type and condition.
C2_NoHealthyDuplicateAlways ==
    pc = "done" =>
        \A j, k \in 1..Len(registry) :
            (/\ j # k
             /\ registry[j].status \in HealthyStatuses
             /\ registry[k].status \in HealthyStatuses
             /\ registry[j].type = registry[k].type)
                => registry[j].condition # registry[k].condition

\* C2 (amended): when the listing held at most one subscription of a desired
\* type T, the registry holds no two healthy subscriptions of type T with the
\* same condition once setupEventSub has ended, also when the delete call did
\* not remove the old subscription.
C2_NoHealthyDuplicate ==
    (Terminated /\ Listed) =>
        \A j, k \in 1..Len(registry) :
            (/\ j # k
             /\ registry[j].type \in DesiredTypes
             /\ Cardinality(OfType(subscriptions, registry[j].type)) <= 1
             /\ registry[j].status \in HealthyStatuses
             /\ registry[k].status \in HealthyStatuses
             /\ registry[j].type = registry[k].type)
                => registry[j].condition # registry[k].condition

\* the delete call left the unhealthy subscription in place and the create
\* call added a healthy one of the same type and condition
C2_Witness ==
    /\ pc = "done"
    /\ \E d \in 1..Len(calls) :
          /\ calls[d].op = "delete"
          /\ calls[d].result = "error"
          /\ Cardinality(OfType(subscriptions, calls[d].type)) = 1
          /\ \E j, k \in OfType(registry, calls[d].type) :
                /\ registry[j].id = calls[d].id
                /\ registry[k].status \in HealthyStatuses
                /\ registry[j].condition = registry[k].condition

----------------------------------------------------------------------------
(* C3 *)

\* C3 as stated: when every desired type has some healthy subscription in
\* the listing, the run issues no create and no delete call.
C3_IdempotentAnyHealthy ==
    (Listed /\ \A T \in DesiredTypes : HealthyOfType(subscriptions, T) # {})
        => RegistryCalls = {}

\* C3 (amended): when for every desired type the first listed subscription of
\* that type is healthy, the run issues no create and no delete call and the
\* registry stays as listed; this holds of every further run as well.
C3_Idempotent ==
    (Listed /\ \A T \in DesiredTypes : FirstIsHealthy(subscriptions, T))
        => (RegistryCalls = {} /\ registry = subscriptions)

\* a second or later run that found every desired type healthy and completed
C3_Witness ==
    /\ run >= 2
    /\ pc = "done"
    /\ \A T \in DesiredTypes : FirstIsHealthy(subscriptions, T)

----------------------------------------------------------------------------
(* C4 *)

\* C4: when the loop has found an unhealthy existing subscription for the
\* desired type at position i, the run issues exactly one delete call, with
\* that subscription's id, and then exactly one create call for the type,
\* the create only after the delete has returned.
C4_DeleteThenCreate ==
    (Terminated /\ Listed) =>
        \A i \in 1..Len(eventTypes) :
            (i <= idx /\ FirstIsUnhealthy(subscriptions, eventTypes[i][1])) =>
                LET T == eventTypes[i][1]
                    old == subscriptions[FirstOfType(subscriptions, T)]
                IN  /\ Cardinality(CallsOf("delete", T)) = 1
                    /\ Cardinality(CallsOf("create", T)) = 1
                    /\ \A d \in CallsOf("delete", T), c \in CallsOf("create", T) :
                          /\ calls[d].id = old.id
                          /\ d < c
                          /\ calls[d].result # "pending"

----------------------------------------------------------------------------
(* C5 *)

\* C5: when the listing is empty, the run issues no delete call and exactly
\* one create call per entry of eventTypes, in the order of the list; the
\* call for channel.raid carries {to_broadcaster_user_id: userId} and no
\* broadcaster_user_id, every other call {broadcaster_user_id: userId}.
C5_EmptyRegistryCreates ==
    (Terminated /\ Listed /\ subscriptions = <<>>) =>
        /\ Len(calls) = Len(eventTypes) + 2
        /\ \A i \in 1..Len(eventTypes) :
              /\ calls[i + 2].op = "create"
              /\ calls[i + 2].type = eventTypes[i][1]
              /\ IF eventTypes[i][1] = "channel.raid"
                 THEN /\ calls[i + 2].condition = [to_broadcaster_user_id |-> userId]
                      /\ "broadcaster_user_id" \notin DOMAIN calls[i + 2].condition
                 ELSE calls[i + 2].condition = [broadcaster_user_id |-> userId]

\* a completed run on an empty listing
C5_Witness ==
    /\ pc = "done"
    /\ subscriptions = <<>>
    /\ Cardinality(RegistryCalls) = Len(eventTypes)

----------------------------------------------------------------------------
(* Vocabulary of the properties of handleEvent / redeem *)

Handled == rpc \in {"done", "failed"}

IsRedemption == delivered >= 1 /\ event.type = redemptionAdd

\* the effects of the delivery being handled, by operation
Current(ops) == {k \in 1..Len(effects) : effects[k].n = delivered /\ effects[k].op \in ops}

ActionOps == {"redeemShell", "redeemSnapFilter", "redeemGiveawayEntry"}

CollaboratorOps == {"open", "toggleSnapFilter", "handleNewEntry"}

AllOps == ActionOps \cup CollaboratorOps \cup {"switchScene"}

\* the scene the reward of the event declares, "" when it declares none
DeclaredScene ==
    IF event.reward_id \in DOMAIN Rewards /\ "scene" \in DOMAIN Rewards[event.reward_id]
    THEN Rewards[event.reward_id].scene ELSE ""

----------------------------------------------------------------------------
(* C6 *)

\* C6: a redemption whose reward id has no Reward definition invokes no
\* collaborator and no action: no process launch, no filter toggle, no
\* giveaway entry and no scene switch.
C6_UnknownRewardNoEffect ==
    (IsRedemption /\ event.reward_id \notin DOMAIN Rewards) => Current(AllOps) = {}

\* a redemption of an unknown reward has been handled, after one that acted
C6_Witness ==
    /\ IsRedemption
    /\ event.reward_id \notin DOMAIN Rewards
    /\ rpc = "done"
    /\ effects # <<>>

----------------------------------------------------------------------------
(* C7 *)

\* C7: when a redemption whose Reward declares a scene has been handled, its
\* reward action has been performed exactly once and has finished before the
\* one scene switch, which carries the declared scene; a giveaway-entry
\* reward has handed the redeemer's user_name to the giveaway collaborator
\* once, before the scene switch.
C7_ActionThenScene ==
    (Handled /\ IsRedemption /\ DeclaredScene # "") =>
        /\ Cardinality(Current(ActionOps)) = 1
        /\ Cardinality(Current({"switchScene"})) = 1
        /\ \A a \in Current(ActionOps), w \in Current({"switchScene"}) :
              /\ a < w
              /\ effects[a].result = "ok"
              /\ effects[w].arg = DeclaredScene
        /\ Rewards[event.reward_id].type = "giveaway-entry" =>
              /\ Cardinality(Current({"handleNewEntry"})) = 1
              /\ \A g \in Current({"handleNewEntry"}), w \in Current({"switchScene"}) :
                    effects[g].arg = event.user_name /\ g < w

----------------------------------------------------------------------------
(* C8 *)

\* C8: the message "!winner" calls selectWinner if and only if its sender is
\* the channel owner, and no message that does not begin with "!winner"
\* calls selectWinner.
C8_WinnerOnlyByOwner ==
    \A k \in 1..Len(chat) :
        LET called == \E j \in 1..Len(chat[k].steps) : chat[k].steps[j] = "selectWinner"
            m == chat[k].message
        IN  /\ m = <<"!", "w", "i", "n", "n", "e", "r">> => (called <=> chat[k].user = "owner")
            /\ ~(Len(m) >= 7 /\ SubSeq(m, 1, 7) = <<"!", "w", "i", "n", "n", "e", "r">>)
                  => ~called

\* "!winner" was sent by another user, then by the owner
C8_Witness ==
    /\ Len(chat) = 2
    /\ chat[1].message = winnerToken /\ chat[1].user = "viewer"
    /\ chat[1].steps = <<"emit">>
    /\ chat[2].message = winnerToken /\ chat[2].user = "owner"
    /\ chat[2].steps[1] = "selectWinner"

----------------------------------------------------------------------------
(* C9 *)

\* C9: a failing delete or create call of one desired type does not abort
\* the loop: once setupEventSub has ended after a listing, every desired type
\* that was absent or unhealthy in the listing has got its create call.
C9_FailureDoesNotAbort ==
    (Terminated /\ Listed) =>
        \A i \in 1..Len(eventTypes) :
            ~FirstIsHealthy(subscriptions, eventTypes[i][1])
                => CallsOf("create", eventTypes[i][1]) # {}


----------------------------------------------------------------------------
(* C10 *)

\* C10: a failing collaborator call of a reward action is caught inside the
\* action: the action does not fail, and when the Reward declares a scene
\* the scene switch is still requested.
C10_ActionFailureContained ==
    (/\ Handled
     /\ IsRedemption
     /\ \E k \in Current(CollaboratorOps) : effects[k].result \in {"threw", "rejected"})
        => /\ \A a \in Current(ActionOps) : effects[a].result = "ok"
           /\ DeclaredScene # "" => Current({"switchScene"}) # {}

----------------------------------------------------------------------------
(* C11 *)

\* C11: an event whose subscription type is not the redemption type is
\* handled without error and invokes no collaborator, whatever it carries.
C11_OtherTypesNoEffect ==
    (delivered >= 1 /\ event.type # redemptionAdd) =>
        /\ rpc = "done"
        /\ Current(AllOps) = {}

\* an event of another type that names a defined reward has been handled,
\* after a redemption that acted
C11_Witness ==
    /\ delivered >= 2
    /\ event.type = "channel.follow"
    /\ event.reward_id \in DOMAIN Rewards
    /\ rpc = "done"
    /\ effects # <<>>

----------------------------------------------------------------------------
(* C12 *)

\* C12: every delete call of a run carries the id of a listed subscription
\* that is unhealthy and of a desired type, every create call is for a
\* desired type, and a run issues at most one delete and at most one create
\* per desired type.
C12_DeletesOnlyUnhealthyDesired ==
    /\ \A k \in 1..Len(calls) :
          /\ calls[k].op = "delete" =>
                \E j \in 1..Len(subscriptions) :
                    /\ subscriptions[j].id = calls[k].id
                    /\ subscriptions[j].type = calls[k].type
                    /\ subscriptions[j].status \notin HealthyStatuses
                    /\ subscriptions[j].type \in DesiredTypes
          /\ calls[k].op = "create" => calls[k].type \in DesiredTypes
    /\ \A T \in DesiredTypes :
          /\ Cardinality(CallsOf("delete", T)) <= 1
          /\ Cardinality(CallsOf("create", T)) <= 1

\* a completed run that deleted one subscription and left alone an unhealthy
\* subscription of a type that is not desired
C12_Witness ==
    /\ pc = "done"
    /\ \E k \in 1..Len(calls) : calls[k].op = "delete" /\ calls[k].result = "ok"
    /\ \E j \in 1..Len(subscriptions) :
          /\ subscriptions[j].type \notin DesiredTypes
          /\ subscriptions[j].status \notin HealthyStatuses
          /\ \E r \in 1..Len(registry) : registry[r] = subscriptions[j]

----------------------------------------------------------------------------
(* C13 *)

\* the effects of the n-th delivery, by operation
EffectsOf(n, ops) == {k \in 1..Len(effects) : effects[k].n = n /\ effects[k].op \in ops}

\* the n-th delivery is a redemption of a defined reward
DefinedRedemption(n) ==
    history[n].type = redemptionAdd /\ history[n].reward_id \in DOMAIN Rewards

\* the handling of the n-th delivery is over
Over(n) == n < delivered \/ Handled

\* C13: no record of handled events is kept: when the same redemption event
\* is delivered again, its reward action is performed again, one action per
\* delivery, and so is the scene switch when the Reward declares a scene and
\* the action has returned.
C13_RedeliveryActsAgain ==
    \A m, n \in 1..Len(history) :
        (m < n /\ history[m] = history[n] /\ DefinedRedemption(n)) =>
            /\ Cardinality(EffectsOf(m, ActionOps)) = 1
            /\ Cardinality(EffectsOf(n, ActionOps)) = 1
            /\ (/\ Over(n)
                /\ "scene" \in DOMAIN Rewards[history[n].reward_id]
                /\ \A a \in EffectsOf(n, ActionOps) : effects[a].result = "ok")
                  => Cardinality(EffectsOf(n, {"switchScene"})) = 1

\* one redemption, delivered twice, has entered the giveaway twice and
\* switched the scene twice
C13_Witness ==
    /\ delivered = 2
    /\ rpc = "done"
    /\ history[1] = history[2]
    /\ history[1].reward_id = "entryScene"
    /\ Cardinality({k \in 1..Len(effects) : effects[k].op = "handleNewEntry"
                                             /\ effects[k].arg = history[1].user_name}) = 2
    /\ Cardinality({k \in 1..Len(effects) : effects[k].op = "switchScene"}) = 2

----------------------------------------------------------------------------
(* C14 *)

\* C14: a failing token exchange or list call is caught where it happens
\* and does not make setupEventSub fail.
C14_TokenAndListFailureCaught ==
    (\E k \in 1..Len(calls) :
        calls[k].op \in {"getToken", "list"} /\ calls[k].result = "threw")
        => pc # "failed"

----------------------------------------------------------------------------
(* C15 *)

ChatCallsOf(op) == {k \in 1..Len(chatCalls) : chatCalls[k].op = op}

\* C15: a failing first connect is caught in setupChatBot: setupChatBot does
\* not fail, connect is called once only, and the message handler is
\* registered after it, as it is after a connect that succeeded.
C15_ConnectFailureCaught ==
    \A c \in ChatCallsOf("connect") :
        chatCalls[c].result # "pending" =>
            /\ cpc = "registered"
            /\ Cardinality(ChatCallsOf("connect")) = 1
            /\ Cardinality(ChatCallsOf("onMessage")) = 1
            /\ \A h \in ChatCallsOf("onMessage") : c < h

\* the connect failed and the handler is registered
C15_Witness ==
    /\ cpc = "registered"
    /\ ~connected
    /\ \E c \in ChatCallsOf("connect") : chatCalls[c].result = "threw"
    /\ ChatCallsOf("onMessage") # {}

----------------------------------------------------------------------------
(* C16 *)

\* C16: every chat message received gives exactly one twitch-chat-event
\* emission, also the owner's winner command, for which selectWinner is
\* called before the emission.
C16_OneEmitPerMessage ==
    \A k \in 1..Len(chat) :
        LET st == chat[k].steps
            emits == {j \in 1..Len(st) : st[j] = "emit"}
            wins == {j \in 1..Len(st) : st[j] = "selectWinner"}
        IN  /\ Cardinality(emits) = 1
            /\ \A w \in wins, e \in emits : w < e

----------------------------------------------------------------------------
(* C17 *)

\* the position in eventTypes of a desired type
PositionOf(T) == CHOOSE i \in 1..Len(eventTypes) : eventTypes[i][1] = T

\* C17: the calls of a run are strictly sequential: only the call issued
\* last can be in flight, the list call has returned its data before any
\* delete or create call is issued, and the calls follow the order of
\* eventTypes, the delete of a type before its create.
C17_Sequential ==
    /\ \A k \in 1..Len(calls) : k < Len(calls) => calls[k].result # "pending"
    /\ \A k \in RegistryCalls :
          \E l \in 1..(k-1) : calls[l].op = "list" /\ calls[l].result = "ok"
    /\ \A j, k \in RegistryCalls :
          j < k =>
            \/ PositionOf(calls[j].type) < PositionOf(calls[k].type)
            \/ /\ calls[j].type = calls[k].type
               /\ calls[j].op = "delete"
               /\ calls[k].op = "create"

\* a create call in flight after the delete call of its type has returned
\* and after the calls of an earlier type
C17_Witness ==
    /\ pc = "createSubscription"
    /\ Len(calls) >= 5
    /\ calls[Len(calls)].result = "pending"
    /\ calls[Len(calls) - 1].op = "delete"
    /\ calls[Len(calls) - 1].type = calls[Len(calls)].type

----------------------------------------------------------------------------
(* C18 *)

ActionOpOf(type) ==
    IF type = "shell" THEN "redeemShell"
    ELSE IF type = "snap-filter" THEN "redeemSnapFilter"
    ELSE "redeemGiveawayEntry"

CollaboratorOpOf(type) ==
    IF type = "shell" THEN "open"
    ELSE IF type = "snap-filter" THEN "toggleSnapFilter"
    ELSE "handleNewEntry"

\* C18: a redemption of a defined reward enters exactly the action of the
\* Reward's type and invokes at most one action collaborator, at most once:
\* the process launch with the script for shell, the filter toggle with the
\* key for snap-filter, the giveaway entry with the redeemer's user_name for
\* giveaway-entry.
C18_OneActionByType ==
    (IsRedemption /\ event.reward_id \in DOMAIN Rewards) =>
        LET reward == Rewards[event.reward_id] IN
        /\ \A a \in Current(ActionOps) : effects[a].op = ActionOpOf(reward.type)
        /\ Cardinality(Current(ActionOps)) = 1
        /\ Cardinality(Current(CollaboratorOps)) <= 1
        /\ \A c \in Current(CollaboratorOps) :
              /\ effects[c].op = CollaboratorOpOf(reward.type)
              /\ effects[c].arg =
                    (IF reward.type = "shell" THEN reward.script
                     ELSE IF reward.type = "snap-filter" THEN reward.key
                     ELSE event.user_name)

\* a snap-filter redemption has toggled its filter, after a giveaway entry
C18_Witness ==
    /\ delivered = 2
    /\ Handled
    /\ event.type = redemptionAdd
    /\ event.reward_id = "snapScene"
    /\ \E c \in Current({"toggleSnapFilter"}) : effects[c].arg = "dog"
    /\ \E k \in 1..Len(effects) : effects[k].n = 1 /\ effects[k].op = "handleNewEntry"

----------------------------------------------------------------------------
(* C19 *)

\* C19: a shell reward without script launches no process and a snap-filter
\* reward without key toggles no filter, and both still get their scene
\* switch when the Reward declares a scene; a giveaway-entry reward always
\* calls the giveaway new-entry collaborator.
C19_MissingFieldNoAction ==
    (IsRedemption /\ event.reward_id \in DOMAIN Rewards) =>
        LET reward == Rewards[event.reward_id] IN
        /\ (reward.type = "shell" /\ "script" \notin DOMAIN reward) =>
              /\ Current(CollaboratorOps) = {}
              /\ (Handled /\ "scene" \in DOMAIN reward) =>
                    \E w \in Current({"switchScene"}) : effects[w].arg = reward.scene
        /\ (reward.type = "snap-filter" /\ "key" \notin DOMAIN reward) =>
              /\ Current(CollaboratorOps) = {}
              /\ (Handled /\ "scene" \in DOMAIN reward) =>
                    \E w \in Current({"switchScene"}) : effects[w].arg = reward.scene
        /\ reward.type = "giveaway-entry" =>
              Cardinality(Current({"handleNewEntry"})) = 1

\* a shell reward without script has been handled: no launch, the scene
\* switch done
C19_Witness ==
    /\ IsRedemption
    /\ event.reward_id = "shellNoScript"
    /\ rpc = "done"
    /\ Current({"open"}) = {}
    /\ \E w \in Current({"switchScene"}) : effects[w].arg = "desk"

----------------------------------------------------------------------------
(* C20 *)

\* C20: the decision for a desired type is taken on the first listed
\* subscription of that type alone: when it is healthy the run issues no
\* delete and no create for the type, whatever its condition, and a delete
\* call never carries the id of a later listed subscription of the type, so
\* every later one stays in the registry.
C20_FirstMatchByTypeOnly ==
    Listed =>
        /\ \A T \in DesiredTypes :
              FirstIsHealthy(subscriptions, T) =>
                  CallsOf("delete", T) \cup CallsOf("create", T) = {}
        /\ \A k \in 1..Len(calls) :
              calls[k].op = "delete" =>
                  calls[k].id = subscriptions[FirstOfType(subscriptions, calls[k].type)].id
        /\ \A j \in 1..Len(subscriptions) :
              (/\ subscriptions[j].type \in DesiredTypes
               /\ j # FirstOfType(subscriptions, subscriptions[j].type))
                  => \E r \in 1..Len(registry) : registry[r] = subscriptions[j]

\* a completed run that skipped channel.raid: its first listed subscription
\* is healthy with a condition other than the desired one, an unhealthy one
\* listed after it is still in the registry
C20_Witness ==
    /\ pc = "done"
    /\ Len(subscriptions) >= 2
    /\ subscriptions[1].type = "channel.raid"
    /\ subscriptions[1].status = "enabled"
    /\ subscriptions[1].condition # raidCondition
    /\ subscriptions[2].type = "channel.raid"
    /\ subscriptions[2].status = "authorization_revoked"
    /\ CallsOf("delete", "channel.raid") \cup CallsOf("create", "channel.raid") = {}
    /\ \E r \in 1..Len(registry) : registry[r] = subscriptions[2]

====
